---- MODULE Spec2Model ----
(***************************************************************************)
(* Model of EmailCampaignManager (src/gmail_test.py, the "mail - Copy.py"  *)
(* part): the five MongoDB collections, the SMTP configuration and the     *)
(* campaign send pipeline send_campaign / send_single_email / log_email.   *)
(*                                                                         *)
(* Every storage request (find_one, insert_one, update_one, delete_one) is *)
(* one atomic request to the database.  send_campaign is a long-running    *)
(* call: its lookup-and-resolve phase, each loop iteration and the final   *)
(* write-back are separate steps, so that requests of other clients of the *)
(* same database can fall between them.                                    *)
(*                                                                         *)
(* Specifications: Spec (send_campaign among other clients' requests),     *)
(* SpecCrud (the manager's own CRUD calls and their errors),               *)
(* SpecPersonalize (personalize_email on one template and one contact) and *)
(* SpecSession (send_single_email with each statement of its SMTP session  *)
(* as the failing one).                                                    *)
(***************************************************************************)
EXTENDS Integers, Sequences, FiniteSets, TLC

(* ------------------------------ bounds -------------------------------- *)
\* requests other clients make to the database (or to the configuration)
\* during one run of the model
MaxRequests == 2
\* number of send_campaign calls that reach the send loop
MaxSends == 2

Emails == {"a@x.com", "b@x.com"}
ListNames == {"A", "B"}
TemplateNames == {"welcome"}
\* names send_campaign is called with; no campaign "ghost" is ever created
CampaignNames == {"spring", "ghost"}
CreatedCampaignNames == {"spring"}
SmtpServers == {"", "smtp.x.com"}
\* an id that is a well-formed ObjectId but names no document
DanglingId == 0

VARIABLES
    contacts,        \* contacts collection:       _id -> document
    contact_lists,   \* contact_lists collection:  _id -> document
    templates,       \* templates collection:      _id -> document
    campaigns,       \* campaigns collection:      _id -> document
    email_logs,      \* email_logs collection, in insertion order
    smtp_config,     \* self.smtp_config
    next_id,         \* the next fresh ObjectId, per collection
    now,             \* datetime.now(), a logical clock
    requests,        \* requests of other clients served so far
    call             \* the send_campaign call in progress (its locals)

vars == <<contacts, contact_lists, templates, campaigns, email_logs,
          smtp_config, next_id, now, requests, call>>

db == <<contacts, contact_lists, templates, campaigns, email_logs>>

(* --------------------------- storage helpers --------------------------- *)
EmptyDoc == <<>>

\* insert_one: the document stored under a fresh _id
InsertOne(coll, id, doc) == coll @@ (id :> doc)

\* delete_one by _id
DeleteOne(coll, id) == [i \in DOMAIN coll \ {id} |-> coll[i]]

\* {"$set": updates}: named fields are overwritten or added, the rest kept
MongoSet(doc, updates) ==
    [k \in DOMAIN doc \cup DOMAIN updates |->
        IF k \in DOMAIN updates THEN updates[k] ELSE doc[k]]

\* ids of the documents of coll whose field equals value
Matching(coll, field, value) ==
    {i \in DOMAIN coll : coll[i][field] = value}

\* find_one({field: value}): the matching id (the index makes it unique)
FindOne(coll, field, value) == CHOOSE i \in Matching(coll, field, value) : TRUE

\* faulty variant of DuplicateKey: the index is created without unique=True
DuplicateKey_NoUniqueIndex(coll, field, value) == FALSE

\* the unique index on field rejects a second document with the same value
DuplicateKey(coll, field, value) == Matching(coll, field, value) # {}

NoDup(s) == \A i, j \in 1..Len(s) : i # j => s[i] # s[j]

(* --------------------------- validate_email ---------------------------- *)
Lower == {"a", "b", "c", "d", "e", "f", "g", "h", "i", "j", "k", "l", "m",
          "n", "o", "p", "q", "r", "s", "t", "u", "v", "w", "x", "y", "z"}
Upper == {"A", "B", "C", "D", "E", "F", "G", "H", "I", "J", "K", "L", "M",
          "N", "O", "P", "Q", "R", "S", "T", "U", "V", "W", "X", "Y", "Z"}
Digits == {"0", "1", "2", "3", "4", "5", "6", "7", "8", "9"}
\* [a-zA-Z0-9._%+-]
LocalChars == Lower \cup Upper \cup Digits \cup {".", "_", "%", "+", "-"}
\* [a-zA-Z0-9-]
LabelChars == Lower \cup Upper \cup Digits \cup {"-"}
\* [a-zA-Z]
Letters == Lower \cup Upper

\* the characters of the addresses the model uses
Chars(email) ==
    CASE email = "a@x.com" -> <<"a", "@", "x", ".", "c", "o", "m">>
      [] email = "b@x.com" -> <<"b", "@", "x", ".", "c", "o", "m">>
      [] email = "a@x" -> <<"a", "@", "x">>
      [] email = "b@x.com\n" -> <<"b", "@", "x", ".", "c", "o", "m", "\n">>

\* ([a-zA-Z0-9-]+\.)+ matches all of p
LabelsMatch(p) ==
    /\ Len(p) >= 2
    /\ p[Len(p)] = "."
    /\ p[1] # "."
    /\ \A i \in 1..Len(p) : p[i] \in LabelChars \cup {"."}
    /\ \A i \in 1..(Len(p) - 1) : ~(p[i] = "." /\ p[i + 1] = ".")

\* ([a-zA-Z0-9-]+\.)+[a-zA-Z]{2,} matches all of d
DomainMatches(d) ==
    \E k \in 1..Len(d) :
        /\ d[k] = "."
        /\ Len(d) - k >= 2
        /\ \A i \in (k + 1)..Len(d) : d[i] \in Letters
        /\ LabelsMatch(SubSeq(d, 1, k))

\* lines 185-188: re.match of the pattern; $ matches at the end of the
\* string and also just before a newline that ends it
validate_email(email) ==
    LET s0 == Chars(email)
        s == IF Len(s0) > 0 /\ s0[Len(s0)] = "\n"
             THEN SubSeq(s0, 1, Len(s0) - 1) ELSE s0
    IN \E at \in 2..Len(s) :
          /\ s[at] = "@"
          /\ \A i \in 1..(at - 1) : s[i] \in LocalChars
          /\ DomainMatches(SubSeq(s, at + 1, Len(s)))

(* ------------------------------ data model ----------------------------- *)
\* fields Contact.__init__ accepts
ContactFields == {"email", "first_name", "last_name", "company", "custom_fields"}

\* asdict(Contact(email)): the fields not given have their defaults
NewContact(email) ==
    [email |-> email, first_name |-> <<>>, last_name |-> <<>>,
     company |-> <<>>, custom_fields |-> <<>>]

\* asdict(EmailTemplate(name, subject, body, html_body)) of the template
\* the model saves: subject "{{first_name}}", body "Hi {{email}}",
\* html_body "{{company}}"
NewTemplate(name) ==
    [name |-> name,
     subject |-> <<"{", "{", "f", "i", "r", "s", "t", "_", "n", "a", "m", "e",
                   "}", "}">>,
     body |-> <<"H", "i", " ", "{", "{", "e", "m", "a", "i", "l", "}", "}">>,
     html_body |-> <<"{", "{", "c", "o", "m", "p", "a", "n", "y", "}", "}">>]

\* asdict(Campaign(name, template_id, contact_list_ids))
NewCampaign(name, template_id, contact_list_ids) ==
    [name |-> name, template_id |-> template_id,
     contact_list_ids |-> contact_list_ids,
     sent_at |-> 0, status |-> "draft",
     total_recipients |-> 0, sent_count |-> 0, failed_count |-> 0]

\* op, key: the operation that raised and the key it was called with, when
\* the call is not a send_campaign call; content: what personalize_email
\* returned to the call; template: the EmailTemplate send_campaign loaded;
\* session, ret: what a send_single_email call did and returned
Idle ==
    [pc |-> "idle", campaign_name |-> "", unique_contacts |-> <<>>, i |-> 1,
     sent_count |-> 0, failed_count |-> 0, total_count |-> 0,
     attempts |-> <<>>, appended |-> <<>>, error |-> "", op |-> "", key |-> "",
     content |-> <<>>, template |-> <<>>, session |-> <<>>, ret |-> FALSE]

\* The manager connects to a database that earlier runs have written.  The
\* databases it may find here are produced by the operations below:
\*   add_contact(a@x.com); add_contact(b@x.com); save_template(welcome);
\*   create_contact_list(A) [; create_contact_list(B)];
\*   add_contacts_to_list(...); [create_campaign(spring, 1, list ids)]
SeedContacts ==
    (1 :> [NewContact("a@x.com") EXCEPT !.first_name = <<"A", "l">>,
                                        !.company = <<"X">>]) @@
    (2 :> [NewContact("b@x.com") EXCEPT !.first_name = <<"B", "o">>,
                                        !.company = <<"Y">>])

SeedTemplates == (1 :> NewTemplate("welcome"))

SeedLists ==
    { (1 :> [name |-> "A", contact_ids |-> <<1, 2>>]),
      (1 :> [name |-> "A", contact_ids |-> <<1>>]) @@
      (2 :> [name |-> "B", contact_ids |-> <<2, 1>>]) }

\* list references create_campaign is called with
ListIdInputs == {<<>>, <<1, 1>>, <<1, 2>>, <<DanglingId, 2>>}

RECURSIVE SeqToSet(_)
SeqToSet(s) == IF s = <<>> THEN {} ELSE {Head(s)} \cup SeqToSet(Tail(s))

\* the references a caller can hold: ids of existing lists, or a stale id
KnownListIds(ls) ==
    {l \in ListIdInputs : SeqToSet(l) \subseteq DOMAIN ls \cup {DanglingId}}

SeedCampaigns(ls) ==
    {EmptyDoc} \cup {(1 :> NewCampaign("spring", 1, l)) : l \in KnownListIds(ls)}

Init ==
    /\ contacts = SeedContacts
    /\ contact_lists \in SeedLists
    /\ templates = SeedTemplates
    /\ campaigns \in SeedCampaigns(contact_lists)
    /\ email_logs = <<>>
    /\ smtp_config = [server |-> "", use_tls |-> TRUE]
    /\ next_id = [contacts |-> 3, templates |-> 2]
    /\ now = 1
    /\ requests = 0
    /\ call = Idle

\* requests of other clients are served between the steps of a call
Serving == call.pc \in {"idle", "loop"} /\ requests < MaxRequests

(* ------------------------- configuration / CRUD ------------------------ *)
\* one more request of another client is served
Request == Serving /\ requests' = requests + 1

configure_smtp(server, use_tls) ==
    /\ Request
    /\ smtp_config' = [server |-> server, use_tls |-> use_tls]
    /\ UNCHANGED <<db, next_id, now, call>>

add_contact(email) ==
    /\ Request
    /\ validate_email(email)
    /\ ~DuplicateKey(contacts, "email", email)
    /\ contacts' = InsertOne(contacts, next_id.contacts, NewContact(email))
    /\ next_id' = [next_id EXCEPT !.contacts = @ + 1]
    /\ UNCHANGED <<contact_lists, templates, campaigns, email_logs,
                   smtp_config, now, call>>

update_contact(email, updates) ==
    /\ Request
    /\ Matching(contacts, "email", email) # {}
    /\ LET id == FindOne(contacts, "email", email)
           others == DeleteOne(contacts, id)
           set == MongoSet(updates, [updated_at |-> now])
       IN /\ ("email" \in DOMAIN updates) =>
                ~DuplicateKey(others, "email", updates.email)
          /\ contacts' = [contacts EXCEPT ![id] = MongoSet(@, set)]
    /\ UNCHANGED <<contact_lists, templates, campaigns, email_logs,
                   smtp_config, next_id, now, call>>

delete_contact(email) ==
    /\ Request
    /\ Matching(contacts, "email", email) # {}
    /\ contacts' = DeleteOne(contacts, FindOne(contacts, "email", email))
    /\ UNCHANGED <<contact_lists, templates, campaigns, email_logs,
                   smtp_config, next_id, now, call>>

create_contact_list(name) ==
    /\ Request
    /\ ~DuplicateKey(contact_lists, "name", name)
    /\ contact_lists' = InsertOne(contact_lists,
                                  Cardinality(DOMAIN contact_lists) + 1,
                                  [name |-> name, contact_ids |-> <<>>])
    /\ UNCHANGED <<contacts, templates, campaigns, email_logs,
                   smtp_config, next_id, now, call>>

\* {"$addToSet": {"contact_ids": {"$each": ids}}}
RECURSIVE AddToSet(_, _)
AddToSet(arr, ids) ==
    IF ids = <<>> THEN arr
    ELSE AddToSet(IF Head(ids) \in SeqToSet(arr) THEN arr
                  ELSE Append(arr, Head(ids)), Tail(ids))

\* lines 295-299: the ids of the contacts found for the emails
RECURSIVE ContactIdsOf(_)
ContactIdsOf(emails) ==
    IF emails = <<>> THEN <<>>
    ELSE LET rest == ContactIdsOf(Tail(emails))
         IN IF Matching(contacts, "email", Head(emails)) # {}
            THEN <<FindOne(contacts, "email", Head(emails))>> \o rest
            ELSE rest

add_contacts_to_list(list_name, emails) ==
    /\ Request
    /\ Matching(contact_lists, "name", list_name) # {}
    /\ LET id == FindOne(contact_lists, "name", list_name)
       IN contact_lists' = [contact_lists EXCEPT ![id].contact_ids =
                                AddToSet(@, ContactIdsOf(emails))]
    /\ UNCHANGED <<contacts, templates, campaigns, email_logs,
                   smtp_config, next_id, now, call>>

save_template(name) ==
    /\ Request
    /\ ~DuplicateKey(templates, "name", name)
    /\ templates' = InsertOne(templates, next_id.templates, NewTemplate(name))
    /\ next_id' = [next_id EXCEPT !.templates = @ + 1]
    /\ UNCHANGED <<contacts, contact_lists, campaigns, email_logs,
                   smtp_config, now, call>>

delete_template(name) ==
    /\ Request
    /\ Matching(templates, "name", name) # {}
    /\ templates' = DeleteOne(templates, FindOne(templates, "name", name))
    /\ UNCHANGED <<contacts, contact_lists, campaigns, email_logs,
                   smtp_config, next_id, now, call>>

create_campaign(name, template_id, contact_list_ids) ==
    /\ Request
    /\ ~DuplicateKey(campaigns, "name", name)
    /\ campaigns' = InsertOne(campaigns, Cardinality(DOMAIN campaigns) + 1,
                              NewCampaign(name, template_id, contact_list_ids))
    /\ UNCHANGED <<contacts, contact_lists, templates, email_logs,
                   smtp_config, next_id, now, call>>

\* entries of logs whose timestamp is not before cutoff
RECURSIVE KeepFrom(_, _)
KeepFrom(logs, cutoff) ==
    IF logs = <<>> THEN <<>>
    ELSE IF Head(logs).timestamp < cutoff
         THEN KeepFrom(Tail(logs), cutoff)
         ELSE <<Head(logs)>> \o KeepFrom(Tail(logs), cutoff)

\* faulty variant of cleanup_old_logs: the cutoff itself is removed too
\* ($lte in place of $lt)
cleanup_old_logs_Lte(days_old) ==
    /\ Request
    /\ email_logs' = KeepFrom(email_logs, now - days_old + 1)
    /\ UNCHANGED <<contacts, contact_lists, templates, campaigns,
                   smtp_config, next_id, now, call>>

\* lines 589-595: delete_many({"timestamp": {"$lt": now - days_old}})
cleanup_old_logs(days_old) ==
    /\ Request
    /\ email_logs' = KeepFrom(email_logs, now - days_old)
    /\ UNCHANGED <<contacts, contact_lists, templates, campaigns,
                   smtp_config, next_id, now, call>>

\* calls of the manager itself that raise
\* the call of op with key raised error
RaisedIn(op, key, error) ==
    [Idle EXCEPT !.pc = "raised", !.op = op, !.key = key, !.error = error]

Unchanged == UNCHANGED <<db, smtp_config, next_id, now, requests>>

\* lines 193-194: the address does not validate
add_contact_invalid(email) ==
    /\ call.pc = "idle"
    /\ ~validate_email(email)
    /\ call' = RaisedIn("add_contact", email, "Invalid email address")
    /\ Unchanged

\* lines 202-204: the insert hits the unique index
add_contact_duplicate(email) ==
    /\ call.pc = "idle"
    /\ validate_email(email)
    /\ DuplicateKey(contacts, "email", email)
    /\ call' = RaisedIn("add_contact", email, "already exists")
    /\ Unchanged

\* lines 218-221: the update hits the unique index; update_contact does not
\* catch the DuplicateKeyError
update_contact_duplicate(email, updates) ==
    /\ call.pc = "idle"
    /\ Matching(contacts, "email", email) # {}
    /\ "email" \in DOMAIN updates
    /\ DuplicateKey(DeleteOne(contacts, FindOne(contacts, "email", email)),
                    "email", updates.email)
    /\ call' = RaisedIn("update_contact", email, "DuplicateKeyError")
    /\ Unchanged

\* lines 289-290
create_contact_list_duplicate(name) ==
    /\ call.pc = "idle"
    /\ DuplicateKey(contact_lists, "name", name)
    /\ call' = RaisedIn("create_contact_list", name, "already exists")
    /\ Unchanged

\* lines 335-336
save_template_duplicate(name) ==
    /\ call.pc = "idle"
    /\ DuplicateKey(templates, "name", name)
    /\ call' = RaisedIn("save_template", name, "already exists")
    /\ Unchanged

\* lines 467-468
create_campaign_duplicate(name) ==
    /\ call.pc = "idle"
    /\ DuplicateKey(campaigns, "name", name)
    /\ call' = RaisedIn("create_campaign", name, "already exists")
    /\ Unchanged

(* -------------------------- personalize_email -------------------------- *)
\* a text is the sequence of its characters

\* faulty variant of Replace: only the first occurrence is replaced, as by
\* str.replace(old, new, 1)
Replace_First(s, old, new) ==
    LET hits == {i \in 1..(Len(s) - Len(old) + 1) :
                    SubSeq(s, i, i + Len(old) - 1) = old}
    IN IF hits = {} THEN s
       ELSE LET i == CHOOSE h \in hits : \A g \in hits : h <= g
            IN SubSeq(s, 1, i - 1) \o new \o SubSeq(s, i + Len(old), Len(s))

\* str.replace(old, new): every occurrence of old, found left to right and
\* not overlapping, becomes new
RECURSIVE Replace(_, _, _)
Replace(s, old, new) ==
    IF Len(s) < Len(old) THEN s
    ELSE IF SubSeq(s, 1, Len(old)) = old
         THEN new \o Replace(SubSeq(s, Len(old) + 1, Len(s)), old, new)
         ELSE <<s[1]>> \o Replace(Tail(s), old, new)

\* str.strip() (the texts of the model have no whitespace but the space)
RECURSIVE Strip(_)
Strip(s) ==
    IF s = <<>> THEN s
    ELSE IF s[1] = " " THEN Strip(Tail(s))
    ELSE IF s[Len(s)] = " " THEN Strip(SubSeq(s, 1, Len(s) - 1))
    ELSE s

\* "{{" + name + "}}"
Placeholder(name) == <<"{", "{">> \o name \o <<"}", "}">>

first_name == <<"f", "i", "r", "s", "t", "_", "n", "a", "m", "e">>
last_name == <<"l", "a", "s", "t", "_", "n", "a", "m", "e">>
email == <<"e", "m", "a", "i", "l">>
company == <<"c", "o", "m", "p", "a", "n", "y">>
full_name == <<"f", "u", "l", "l", "_", "n", "a", "m", "e">>
custom == <<"c", "u", "s", "t", "o", "m", ".">>

\* lines 370-376: the placeholders dict, in the order the loop of line 378
\* goes through it
placeholders(contact) ==
    << [placeholder |-> Placeholder(first_name), value |-> contact.first_name],
       [placeholder |-> Placeholder(last_name), value |-> contact.last_name],
       [placeholder |-> Placeholder(email), value |-> Chars(contact.email)],
       [placeholder |-> Placeholder(company), value |-> contact.company],
       [placeholder |-> Placeholder(full_name),
        value |-> Strip(contact.first_name \o <<" ">> \o contact.last_name)] >>

\* lines 384-385: custom_fields.items() as placeholder and value
CustomPlaceholders(custom_fields) ==
    [k \in 1..Len(custom_fields) |->
        [placeholder |-> Placeholder(custom \o custom_fields[k].field_name),
         value |-> custom_fields[k].field_value]]

\* lines 378-379 and 383-385: one content.replace per entry, in order
RECURSIVE ReplaceEach(_, _)
ReplaceEach(content, entries) ==
    IF entries = <<>> THEN content
    ELSE ReplaceEach(Replace(content, Head(entries).placeholder,
                             Head(entries).value),
                     Tail(entries))

\* faulty variant of personalize_email: a custom placeholder whose field
\* the contact does not have is replaced by the empty text
personalize_email_BlanksMissing(template_content, contact) ==
    LET content == ReplaceEach(
                       ReplaceEach(template_content, placeholders(contact)),
                       CustomPlaceholders(contact.custom_fields))
    IN Replace(Replace(content, Placeholder(custom \o <<"k">>), <<>>),
               Placeholder(custom \o <<"j">>), <<>>)

\* lines 360-387
personalize_email(template_content, contact) ==
    ReplaceEach(ReplaceEach(template_content, placeholders(contact)),
                CustomPlaceholders(contact.custom_fields))

(* ---------------------------- send pipeline ---------------------------- *)
\* log_email: the entry inserted into email_logs
log_email(to_email, subject, status, error_message) ==
    [to_email |-> to_email, subject |-> subject, status |-> status,
     timestamp |-> now, error_message |-> error_message]

\* faulty variant of SmtpSteps: the login is sent before STARTTLS
SmtpSteps_LoginFirst(use_tls) ==
    <<"connect", "login">> \o
    (IF use_tls THEN <<"starttls">> ELSE <<>>) \o
    <<"send_message", "quit", "log_email">>

\* lines 425-439: the statements of the try block that talk to the SMTP
\* server or the database, in order
SmtpSteps(use_tls) ==
    <<"connect">> \o
    (IF use_tls THEN <<"starttls">> ELSE <<>>) \o
    <<"login", "send_message", "quit", "log_email">>

\* the statements executed when the one named fault raises: those before
\* it succeed, it fails, and the except clause of line 443 skips the rest
RECURSIVE Session(_, _)
Session(steps, fault) ==
    IF steps = <<>> THEN <<>>
    ELSE IF Head(steps) = fault
         THEN <<[cmd |-> Head(steps), ok |-> FALSE]>>
         ELSE <<[cmd |-> Head(steps), ok |-> TRUE]>> \o
              Session(Tail(steps), fault)

\* send_single_email(to_email, subject, body, html_body) when the
\* statement fault raises ("none": every statement succeeds).  raised: the
\* call raises instead of returning; ret: the value returned; logs: the
\* entries it inserts; message: the msg built in lines 397-410; session:
\* the statements of the try block it executed.  (The insert of the
\* except clause, line 444, succeeds.)
send_single_email(to_email, subject, body, html_body, fault) ==
    IF smtp_config.server = ""
    THEN [raised |-> TRUE, ret |-> FALSE, logs |-> <<>>,
          message |-> EmptyDoc, session |-> <<>>]
    ELSE LET session == Session(SmtpSteps(smtp_config.use_tls), fault)
             msg == [To |-> to_email, Subject |-> subject, body |-> body,
                     html_body |-> html_body]
         IN IF \A k \in 1..Len(session) : session[k].ok
            THEN [raised |-> FALSE, ret |-> TRUE,
                  logs |-> <<log_email(to_email, subject, "sent", "")>>,
                  message |-> msg, session |-> session]
            ELSE [raised |-> FALSE, ret |-> FALSE,
                  logs |-> <<log_email(to_email, subject, "failed", fault)>>,
                  message |-> msg, session |-> session]

\* lines 519-521: the three texts of the template personalized for contact
PersonalizedTexts(template, contact) ==
    [subject |-> personalize_email(template.subject, contact),
     body |-> personalize_email(template.body, contact),
     html_body |-> IF template.html_body # <<>>
                   THEN personalize_email(template.html_body, contact)
                   ELSE <<>>]

\* faulty variant of SendSingleTo: the texts personalized for the first
\* recipient are sent to every recipient
SendSingleTo_FirstContactsTexts(c, contact, fault) ==
    LET p == PersonalizedTexts(c.template, c.unique_contacts[1])
    IN send_single_email(contact.email, p.subject, p.body, p.html_body, fault)

\* lines 519-531: personalize for contact, then send_single_email
SendSingleTo(c, contact, fault) ==
    LET p == PersonalizedTexts(c.template, contact)
    IN send_single_email(contact.email, p.subject, p.body, p.html_body, fault)

\* steps of the SMTP session at which an exception can be raised
SmtpFaults == {"none", "login"}

\* Contact(**contact_doc) after popping _id and created_at: a TypeError for
\* a document holding a key the dataclass does not declare
ContactRaises(doc) == ~(DOMAIN doc \subseteq ContactFields)

\* faulty variant of ListContacts: the walk of a list ends at the first
\* contact id that does not resolve
RECURSIVE ListContacts_StopsAtDangling(_)
ListContacts_StopsAtDangling(contact_ids) ==
    IF contact_ids = <<>> THEN <<>>
    ELSE IF Head(contact_ids) \in DOMAIN contacts
         THEN <<contacts[Head(contact_ids)]>> \o
              ListContacts_StopsAtDangling(Tail(contact_ids))
         ELSE <<>>

\* the contact documents reached from the list references, in walk order;
\* references that do not resolve are skipped
RECURSIVE ListContacts(_)
ListContacts(contact_ids) ==
    IF contact_ids = <<>> THEN <<>>
    ELSE LET rest == ListContacts(Tail(contact_ids))
         IN IF Head(contact_ids) \in DOMAIN contacts
            THEN <<contacts[Head(contact_ids)]>> \o rest
            ELSE rest

RECURSIVE AllContacts(_)
AllContacts(contact_list_ids) ==
    IF contact_list_ids = <<>> THEN <<>>
    ELSE LET rest == AllContacts(Tail(contact_list_ids))
         IN IF Head(contact_list_ids) \in DOMAIN contact_lists
            THEN ListContacts(contact_lists[Head(contact_list_ids)].contact_ids)
                 \o rest
            ELSE rest

\* "Remove duplicates based on email": first occurrence of each email kept
RECURSIVE UniqueFrom(_, _)
UniqueFrom(all_contacts, seen_emails) ==
    IF all_contacts = <<>> THEN <<>>
    ELSE IF Head(all_contacts).email \in seen_emails
         THEN UniqueFrom(Tail(all_contacts), seen_emails)
         ELSE <<Head(all_contacts)>> \o
              UniqueFrom(Tail(all_contacts),
                         seen_emails \cup {Head(all_contacts).email})

\* faulty variant of UniqueContacts: the last occurrence of each email is
\* the one kept
RECURSIVE UniqueContacts_KeepLast(_)
UniqueContacts_KeepLast(all_contacts) ==
    IF all_contacts = <<>> THEN <<>>
    ELSE IF \E j \in 2..Len(all_contacts) :
                all_contacts[j].email = all_contacts[1].email
         THEN UniqueContacts_KeepLast(Tail(all_contacts))
         ELSE <<all_contacts[1]>> \o UniqueContacts_KeepLast(Tail(all_contacts))

\* faulty variant of UniqueContacts: the duplicate removal is left out
UniqueContacts_KeepAll(all_contacts) == all_contacts

UniqueContacts(all_contacts) == UniqueFrom(all_contacts, {})

Raised(campaign_name, error) ==
    [Idle EXCEPT !.pc = "raised", !.campaign_name = campaign_name,
                 !.error = error]

\* faulty variant of SendCampaignNotFound: the missing campaign is created
\* as a draft (an upsert) before the error is raised
SendCampaignNotFound_Upsert(campaign_name) ==
    /\ call.pc = "idle"
    /\ Matching(campaigns, "name", campaign_name) = {}
    /\ call' = Raised(campaign_name, "Campaign not found")
    /\ campaigns' = InsertOne(campaigns, Cardinality(DOMAIN campaigns) + 1,
                              NewCampaign(campaign_name, DanglingId, <<>>))
    /\ UNCHANGED <<contacts, contact_lists, templates, email_logs,
                   smtp_config, next_id, now, requests>>

\* lines 477-480: the campaign is not found
SendCampaignNotFound(campaign_name) ==
    /\ call.pc = "idle"
    /\ Matching(campaigns, "name", campaign_name) = {}
    /\ call' = Raised(campaign_name, "Campaign not found")
    /\ UNCHANGED <<db, smtp_config, next_id, now, requests>>

\* faulty variant of SendCampaignTemplateNotFound: the campaign is marked
\* sent before the template is looked up
SendCampaignTemplateNotFound_MarksSent(campaign_name) ==
    /\ call.pc = "idle"
    /\ Matching(campaigns, "name", campaign_name) # {}
    /\ LET id == FindOne(campaigns, "name", campaign_name)
       IN /\ campaigns[id].template_id \notin DOMAIN templates
          /\ campaigns' = [campaigns EXCEPT ![id].status = "sent"]
    /\ call' = Raised(campaign_name, "Template not found")
    /\ UNCHANGED <<contacts, contact_lists, templates, email_logs,
                   smtp_config, next_id, now, requests>>

\* lines 482-485: the campaign's template reference does not resolve
SendCampaignTemplateNotFound(campaign_name) ==
    /\ call.pc = "idle"
    /\ Matching(campaigns, "name", campaign_name) # {}
    /\ LET campaign_doc == campaigns[FindOne(campaigns, "name", campaign_name)]
       IN campaign_doc.template_id \notin DOMAIN templates
    /\ call' = Raised(campaign_name, "Template not found")
    /\ UNCHANGED <<db, smtp_config, next_id, now, requests>>

\* lines 490-515: recipients resolved and deduplicated, counters zeroed
SendCampaignResolve(campaign_name) ==
    /\ call.pc = "idle"
    /\ now <= MaxSends
    /\ Matching(campaigns, "name", campaign_name) # {}
    /\ LET campaign_doc == campaigns[FindOne(campaigns, "name", campaign_name)]
           all_contacts == AllContacts(campaign_doc.contact_list_ids)
           unique_contacts == UniqueContacts(all_contacts)
       IN /\ campaign_doc.template_id \in DOMAIN templates
          /\ IF \E k \in 1..Len(all_contacts) : ContactRaises(all_contacts[k])
             THEN call' = Raised(campaign_name, "TypeError")
             ELSE call' = [Idle EXCEPT !.pc = "loop",
                                       !.campaign_name = campaign_name,
                                       !.template =
                                           templates[campaign_doc.template_id],
                                       !.unique_contacts = unique_contacts,
                                       !.total_count = Len(unique_contacts)]
    /\ UNCHANGED <<db, smtp_config, next_id, now, requests>>

\* faulty variant of AfterAttempt: an attempt that raises is counted neither
\* as sent nor as failed
AfterAttempt_RaiseUncounted(c, contact, r) ==
    LET ok == ~r.raised /\ r.ret
    IN [c EXCEPT
          !.i = @ + 1,
          !.sent_count = IF ok THEN @ + 1 ELSE @,
          !.failed_count = IF ok \/ r.raised THEN @ ELSE @ + 1,
          !.attempts = Append(@, [to_email |-> contact.email,
                                  counted |-> IF ok THEN "sent" ELSE "failed",
                                  message |-> r.message]),
          !.appended = @ \o r.logs]

\* faulty variant of AfterAttempt: the first failed attempt ends the loop
AfterAttempt_AbortOnFailure(c, contact, r) ==
    LET ok == ~r.raised /\ r.ret
    IN [c EXCEPT
          !.i = IF ok THEN @ + 1 ELSE Len(c.unique_contacts) + 1,
          !.sent_count = IF ok THEN @ + 1 ELSE @,
          !.failed_count = IF ok THEN @ ELSE @ + 1,
          !.attempts = Append(@, [to_email |-> contact.email,
                                  counted |-> IF ok THEN "sent" ELSE "failed",
                                  message |-> r.message]),
          !.appended = @ \o r.logs]

\* lines 525-538: the locals after the attempt for contact ended with r
\* (attempts and appended record what the iteration did)
AfterAttempt(c, contact, r) ==
    LET ok == ~r.raised /\ r.ret
    IN [c EXCEPT
          !.i = @ + 1,
          !.sent_count = IF ok THEN @ + 1 ELSE @,
          !.failed_count = IF ok THEN @ ELSE @ + 1,
          !.attempts = Append(@, [to_email |-> contact.email,
                                  counted |-> IF ok THEN "sent" ELSE "failed",
                                  message |-> r.message]),
          !.appended = @ \o r.logs]

\* faulty variant of SendCampaignAttempt: every iteration writes the
\* running counts to the campaign document
SendCampaignAttempt_WritesProgress(fault) ==
    /\ call.pc = "loop"
    /\ call.i <= Len(call.unique_contacts)
    /\ LET contact == call.unique_contacts[call.i]
           r == SendSingleTo(call, contact, fault)
           c == AfterAttempt(call, contact, r)
           m == Matching(campaigns, "name", call.campaign_name)
       IN /\ email_logs' = email_logs \o r.logs
          /\ call' = c
          /\ campaigns' = [id \in DOMAIN campaigns |->
                IF id \in m
                THEN MongoSet(campaigns[id], [sent_count |-> c.sent_count,
                                              failed_count |-> c.failed_count])
                ELSE campaigns[id]]
    /\ UNCHANGED <<contacts, contact_lists, templates,
                   smtp_config, next_id, now, requests>>

\* faulty variant of SendCampaignAttempt: the contact is read again from
\* the database and passed over when it is no longer there
SendCampaignAttempt_RereadsContact(fault) ==
    /\ call.pc = "loop"
    /\ call.i <= Len(call.unique_contacts)
    /\ LET contact == call.unique_contacts[call.i]
           r == SendSingleTo(call, contact, fault)
       IN IF Matching(contacts, "email", contact.email) = {}
          THEN /\ call' = [call EXCEPT !.i = @ + 1]
               /\ UNCHANGED email_logs
          ELSE /\ email_logs' = email_logs \o r.logs
               /\ call' = AfterAttempt(call, contact, r)
    /\ UNCHANGED <<contacts, contact_lists, templates, campaigns,
                   smtp_config, next_id, now, requests>>

\* lines 517-538: one iteration of the send loop
SendCampaignAttempt(fault) ==
    /\ call.pc = "loop"
    /\ call.i <= Len(call.unique_contacts)
    /\ LET contact == call.unique_contacts[call.i]
           r == SendSingleTo(call, contact, fault)
       IN /\ email_logs' = email_logs \o r.logs
          /\ call' = AfterAttempt(call, contact, r)
    /\ UNCHANGED <<contacts, contact_lists, templates, campaigns,
                   smtp_config, next_id, now, requests>>

\* faulty variant of CampaignUpdate: a run with failures is not marked sent
CampaignUpdate_SentOnlyIfNoFailure(c) ==
    [status |-> IF c.failed_count = 0 THEN "sent" ELSE "failed",
     sent_at |-> now,
     total_recipient |-> c.total_count,
     sent_count |-> c.sent_count,
     failed_count |-> c.failed_count]

\* faulty variant of CampaignUpdate: a run without recipients writes nothing
CampaignUpdate_SkipsEmptyRun(c) ==
    IF c.total_count = 0 THEN EmptyDoc
    ELSE [status |-> "sent", sent_at |-> now,
          total_recipient |-> c.total_count,
          sent_count |-> c.sent_count,
          failed_count |-> c.failed_count]

\* faulty variant of CampaignUpdate: a run in which nothing was sent puts
\* the campaign back to draft
CampaignUpdate_DraftIfNothingSent(c) ==
    [status |-> IF c.sent_count = 0 THEN "draft" ELSE "sent",
     sent_at |-> now,
     total_recipient |-> c.total_count,
     sent_count |-> c.sent_count,
     failed_count |-> c.failed_count]

\* lines 543-551: the fields the final update_one sets
CampaignUpdate(c) ==
    [status |-> "sent", sent_at |-> now,
     total_recipient |-> c.total_count,
     sent_count |-> c.sent_count,
     failed_count |-> c.failed_count]

\* line 554: the statistics returned
Stats(c) ==
    [sent |-> c.sent_count, failed |-> c.failed_count, total |-> c.total_count]

\* lines 540-556: the write-back and the return
SendCampaignFinish ==
    /\ call.pc = "loop"
    /\ call.i > Len(call.unique_contacts)
    /\ LET m == Matching(campaigns, "name", call.campaign_name)
       IN campaigns' = [id \in DOMAIN campaigns |->
                           IF id \in m
                           THEN MongoSet(campaigns[id], CampaignUpdate(call))
                           ELSE campaigns[id]]
    /\ call' = [call EXCEPT !.pc = "returned"]
    /\ now' = now + 1
    /\ UNCHANGED <<contacts, contact_lists, templates, email_logs,
                   smtp_config, next_id, requests>>

\* the caller has the result; the manager is ready for the next call
Return ==
    /\ call.pc \in {"returned", "raised"}
    /\ call' = Idle
    /\ UNCHANGED <<db, smtp_config, next_id, now, requests>>

\* get_campaign_stats, lines 564-572 (the fields read with .get defaults)
get_campaign_stats(campaign_name) ==
    LET doc == campaigns[FindOne(campaigns, "name", campaign_name)]
    IN [name |-> doc.name,
        status |-> doc.status,
        total_recipient |-> IF "total_recipient" \in DOMAIN doc
                            THEN doc.total_recipient ELSE 0,
        sent_count |-> doc.sent_count,
        failed_count |-> doc.failed_count,
        sent_at |-> doc.sent_at]

(* ------------------------------ inputs --------------------------------- *)
UpdateInputs == {EmptyDoc} \cup {[email |-> e] : e \in Emails}
EmailListInputs == {<<e>> : e \in Emails} \cup {<<"a@x.com", "b@x.com">>}
\* ages, in ticks of the clock, cleanup_old_logs is called with
DaysOldInputs == {0, 1}

Next ==
    \/ \E s \in SmtpServers, t \in BOOLEAN : configure_smtp(s, t)
    \/ \E e \in Emails : add_contact(e)
    \/ \E e \in Emails, u \in UpdateInputs : update_contact(e, u)
    \/ \E e \in Emails : delete_contact(e)
    \/ \E n \in ListNames : create_contact_list(n)
    \/ \E n \in ListNames, es \in EmailListInputs : add_contacts_to_list(n, es)
    \/ \E n \in TemplateNames : save_template(n)
    \/ \E n \in TemplateNames : delete_template(n)
    \/ \E n \in CreatedCampaignNames, t \in DOMAIN templates,
          ls \in KnownListIds(contact_lists) : create_campaign(n, t, ls)
    \/ \E d \in DaysOldInputs : cleanup_old_logs(d)
    \/ \E n \in CampaignNames : SendCampaignNotFound(n)
    \/ \E n \in CampaignNames : SendCampaignTemplateNotFound(n)
    \/ \E n \in CampaignNames : SendCampaignResolve(n)
    \/ \E f \in SmtpFaults : SendCampaignAttempt(f)
    \/ SendCampaignFinish
    \/ Return

Spec == Init /\ [][Next]_vars

(* ------------------- the manager's own CRUD calls ---------------------- *)
\* addresses and updates the manager's calls are made with: the addresses
\* of Emails, a malformed one, and one that ends in a newline
CrudEmails == Emails \cup {"a@x", "b@x.com\n"}
CrudUpdateInputs == {EmptyDoc} \cup {[email |-> e] : e \in CrudEmails}

\* a fresh database, or one that earlier runs have written
InitCrud ==
    /\ \/ /\ contacts = EmptyDoc /\ contact_lists = EmptyDoc
          /\ templates = EmptyDoc /\ campaigns = EmptyDoc
          /\ next_id = [contacts |-> 1, templates |-> 1]
       \/ /\ contacts = SeedContacts
          /\ contact_lists \in SeedLists
          /\ templates = SeedTemplates
          /\ campaigns \in SeedCampaigns(contact_lists)
          /\ next_id = [contacts |-> 3, templates |-> 2]
    /\ email_logs = <<>>
    /\ smtp_config = [server |-> "", use_tls |-> TRUE]
    /\ now = 1
    /\ requests = 0
    /\ call = Idle

NextCrud ==
    \/ \E e \in CrudEmails : add_contact(e)
    \/ \E e \in CrudEmails : add_contact_invalid(e)
    \/ \E e \in CrudEmails : add_contact_duplicate(e)
    \/ \E e \in CrudEmails, u \in CrudUpdateInputs : update_contact(e, u)
    \/ \E e \in CrudEmails, u \in CrudUpdateInputs : update_contact_duplicate(e, u)
    \/ \E e \in CrudEmails : delete_contact(e)
    \/ \E n \in ListNames : create_contact_list(n)
    \/ \E n \in ListNames : create_contact_list_duplicate(n)
    \/ \E n \in ListNames, es \in EmailListInputs : add_contacts_to_list(n, es)
    \/ \E n \in TemplateNames : save_template(n)
    \/ \E n \in TemplateNames : save_template_duplicate(n)
    \/ \E n \in TemplateNames : delete_template(n)
    \/ \E n \in CreatedCampaignNames, t \in DOMAIN templates,
          ls \in KnownListIds(contact_lists) : create_campaign(n, t, ls)
    \/ \E n \in CreatedCampaignNames : create_campaign_duplicate(n)
    \/ Return

SpecCrud == InitCrud /\ [][NextCrud]_vars

(* --------------------- personalize_email on its own ------------------- *)
\* lines 519-521 of send_campaign: the template's body is personalized for
\* the contact
Personalize ==
    /\ call.pc = "idle"
    /\ call' = [Idle EXCEPT !.pc = "returned", !.op = "personalize_email",
                            !.content = personalize_email(templates[1].body,
                                                          contacts[1])]
    /\ Unchanged

\* the output of a call is personalized once more for the same contact
PersonalizeAgain ==
    /\ call.pc = "returned"
    /\ call.op = "personalize_email"
    /\ call' = [call EXCEPT !.op = "personalize_email_again",
                            !.content = personalize_email(call.content,
                                                          contacts[1])]
    /\ Unchanged

\* fragments that template texts are put together from: the placeholders,
\* two tokens that are not placeholders, plain text, a lone brace, and the
\* email placeholder with the company placeholder inside its braces
MaxFragments == 2
Fragments ==
    { Placeholder(first_name), Placeholder(last_name), Placeholder(full_name),
      Placeholder(email), Placeholder(company),
      Placeholder(custom \o <<"k">>), Placeholder(custom \o <<"j">>),
      Placeholder(<<"p", "h", "o", "n", "e">>), <<"H", "i", " ">>, <<"{">>,
      <<"{", "{">> \o Placeholder(company) \o email \o <<"}", "}">> }

RECURSIVE Texts(_)
Texts(n) ==
    IF n = 0 THEN {<<>>}
    ELSE Texts(n - 1) \cup {t \o f : t \in Texts(n - 1), f \in Fragments}

\* field values: plain ones, empty ones, and ones that hold a placeholder
FirstNames == {<<"A", "l">>, Placeholder(email)}
LastNames == {<<>>, <<"B", "o">>, Placeholder(custom \o <<"k">>)}
Companies == {<<>>, Placeholder(first_name)}
CustomFieldInputs ==
    {<<>>, <<[field_name |-> <<"k">>, field_value |-> <<"7">>]>>}

\* one template and one contact, drawn from the texts and values above
InitPersonalize ==
    /\ \E body \in Texts(MaxFragments) :
          templates = (1 :> [name |-> "welcome", body |-> body])
    /\ \E f \in FirstNames, l \in LastNames, c \in Companies,
          cf \in CustomFieldInputs :
          contacts = (1 :> [email |-> "a@x.com", first_name |-> f,
                            last_name |-> l, company |-> c,
                            custom_fields |-> cf])
    /\ contact_lists = EmptyDoc
    /\ campaigns = EmptyDoc
    /\ email_logs = <<>>
    /\ smtp_config = [server |-> "", use_tls |-> TRUE]
    /\ next_id = [contacts |-> 2, templates |-> 2]
    /\ now = 1
    /\ requests = 0
    /\ call = Idle

NextPersonalize == Personalize \/ PersonalizeAgain \/ Return

SpecPersonalize == InitPersonalize /\ [][NextPersonalize]_vars

(* --------------------- send_single_email on its own -------------------- *)
\* statements of send_single_email that can raise
SessionFaults ==
    {"none", "connect", "starttls", "login", "send_message", "quit",
     "log_email"}

\* send_single_email(to_email, "Hi", "Hi", "") is called and returns or
\* raises
SendSingleEmail(to_email, fault) ==
    /\ call.pc = "idle"
    /\ now <= MaxSends
    /\ LET r == send_single_email(to_email, <<"H", "i">>, <<"H", "i">>, <<>>,
                                  fault)
       IN /\ call' = [Idle EXCEPT
                         !.pc = IF r.raised THEN "raised" ELSE "returned",
                         !.op = "send_single_email",
                         !.key = to_email,
                         !.error = IF r.raised
                                   THEN "SMTP configuration not set" ELSE "",
                         !.session = r.session,
                         !.ret = r.ret,
                         !.appended = r.logs]
          /\ email_logs' = email_logs \o r.logs
    /\ now' = now + 1
    /\ UNCHANGED <<contacts, contact_lists, templates, campaigns,
                   smtp_config, next_id, requests>>

\* a manager whose SMTP settings are any that configure_smtp can set
InitSession ==
    /\ contacts = SeedContacts
    /\ contact_lists = EmptyDoc
    /\ templates = SeedTemplates
    /\ campaigns = EmptyDoc
    /\ email_logs = <<>>
    /\ smtp_config \in [server : SmtpServers, use_tls : BOOLEAN]
    /\ next_id = [contacts |-> 3, templates |-> 2]
    /\ now = 1
    /\ requests = 0
    /\ call = Idle

NextSession ==
    \/ \E e \in Emails, f \in SessionFaults : SendSingleEmail(e, f)
    \/ Return

SpecSession == InitSession /\ [][NextSession]_vars

(* ============================== properties ============================= *)
\* the stored document of the campaign the call is about
CallCampaign == campaigns[FindOne(campaigns, "name", call.campaign_name)]

\* the emails of a sequence of contacts / of the attempts made
RECURSIVE EmailsOf(_)
EmailsOf(cs) ==
    IF cs = <<>> THEN <<>> ELSE <<Head(cs).email>> \o EmailsOf(Tail(cs))

RECURSIVE Recipients(_)
Recipients(as) ==
    IF as = <<>> THEN <<>> ELSE <<Head(as).to_email>> \o Recipients(Tail(as))

\* the emails of the contacts that resolve through the list references of
\* the campaign named campaign_name, as a set
ResolvableEmails(campaign_name) ==
    LET refs == campaigns[FindOne(campaigns, "name", campaign_name)].contact_list_ids
        lists == SeqToSet(refs) \cap DOMAIN contact_lists
        ids == UNION {SeqToSet(contact_lists[l].contact_ids) : l \in lists}
    IN {contacts[c].email : c \in ids \cap DOMAIN contacts}

\* a send_campaign call enters its send loop in this step
Resolves == call.pc = "idle" /\ call'.pc = "loop"

\* C1: every send_campaign call that returns a summary {sent, failed, total}
\* has sent + failed = total, whichever deliveries failed or raised.
C1_SentPlusFailedIsTotal ==
    call.pc = "returned" =>
        Stats(call).sent + Stats(call).failed = Stats(call).total

\* a call returned with one recipient sent and another failed
C1_Witness ==
    /\ call.pc = "returned"
    /\ Stats(call).sent >= 1
    /\ Stats(call).failed >= 1

\* C2: in one call no email address is attempted more than once, and total
\* is the number of distinct email addresses among the contacts that resolve
\* through the campaign's list references when the call resolves them.
C2_NoAddressTwice ==
    [][ /\ Resolves =>
            /\ call'.total_count =
                   Cardinality(ResolvableEmails(call'.campaign_name))
            /\ SeqToSet(EmailsOf(call'.unique_contacts)) =
                   ResolvableEmails(call'.campaign_name)
        /\ call'.pc \in {"loop", "returned"} =>
            /\ NoDup(Recipients(call'.attempts))
            /\ Len(call'.attempts) <= call'.total_count ]_vars

\* a call returned after attempting both contacts of a campaign in which
\* contact 1 is reached twice (through two lists, or one list named twice)
C2_Witness ==
    /\ call.pc = "returned"
    /\ requests = 0
    /\ Len(call.attempts) = 2
    /\ Len(AllContacts(CallCampaign.contact_list_ids)) > 2

\* C3: when campaign and template resolve, exactly one delivery attempt is
\* made for every recipient of the deduplicated sequence, in its order,
\* whatever the outcome of the earlier attempts.
C3_EveryRecipientAttempted ==
    call.pc = "returned" =>
        Recipients(call.attempts) = EmailsOf(call.unique_contacts)

\* the first of two attempts failed (returned failure or raised) and the
\* second was still made
C3_Witness ==
    /\ call.pc = "returned"
    /\ Len(call.attempts) = 2
    /\ call.attempts[1].counted = "failed"
    /\ call.attempts[2].counted = "sent"

\* C4: a call that completes appends exactly one email-log entry per
\* attempted recipient, also when the attempt raises.
C4_OneLogEntryPerRecipient ==
    call.pc = "returned" =>
        /\ Len(call.appended) = Stats(call).total
        /\ \A k \in 1..Len(call.attempts) :
              Cardinality({j \in 1..Len(call.appended) :
                  call.appended[j].to_email = call.attempts[k].to_email}) = 1

\* C5: every recipient counted in failed has a log entry of this call with
\* status failed and a non-empty error message; every recipient counted in
\* sent has one with status sent.
C5_LogAgreesWithCounters ==
    call.pc = "returned" =>
        \A k \in 1..Len(call.attempts) :
            \E j \in 1..Len(call.appended) :
                /\ call.appended[j].to_email = call.attempts[k].to_email
                /\ call.appended[j].status = call.attempts[k].counted
                /\ call.attempts[k].counted = "failed" =>
                       call.appended[j].error_message # ""

\* a call is made in this step for a name no campaign has
CalledOnMissingCampaign ==
    /\ call.pc = "idle" /\ call'.pc # "idle"
    /\ Matching(campaigns, "name", call'.campaign_name) = {}

\* C6: send_campaign on a campaign name that does not exist fails with a
\* not-found error and changes nothing: no delivery attempt, no log entry,
\* no campaign document created or modified.
C6_MissingCampaignChangesNothing ==
    [][CalledOnMissingCampaign =>
          /\ call'.pc = "raised"
          /\ call'.error = "Campaign not found"
          /\ call'.attempts = <<>>
          /\ email_logs' = email_logs
          /\ campaigns' = campaigns]_vars

\* the call on the name "ghost" has raised
C6_Witness ==
    /\ call.pc = "raised"
    /\ call.campaign_name = "ghost"
    /\ call.error = "Campaign not found"

\* a call is made in this step for a campaign whose template is gone
CalledOnMissingTemplate ==
    /\ call.pc = "idle" /\ call'.pc # "idle"
    /\ Matching(campaigns, "name", call'.campaign_name) # {}
    /\ campaigns[FindOne(campaigns, "name", call'.campaign_name)].template_id
           \notin DOMAIN templates

\* C7: send_campaign on a campaign whose template reference no longer
\* resolves fails with a not-found error and writes nothing: the campaign
\* document (status, counts) is unchanged, no delivery attempt, no log entry.
C7_MissingTemplateWritesNothing ==
    [][CalledOnMissingTemplate =>
          /\ call'.pc = "raised"
          /\ call'.error = "Template not found"
          /\ call'.attempts = <<>>
          /\ email_logs' = email_logs
          /\ campaigns' = campaigns]_vars

\* the call on a draft campaign whose template was deleted has raised
C7_Witness ==
    /\ call.pc = "raised"
    /\ call.error = "Template not found"
    /\ CallCampaign.status = "draft"
    /\ templates = EmptyDoc

\* C8: whenever the call resolves campaign and template, the campaign's
\* status is sent when the call returns, even if sends failed.
C8_StatusSentOnReturn ==
    call.pc = "returned" => CallCampaign.status = "sent"

\* a call returned in which every send failed
C8_Witness ==
    /\ call.pc = "returned"
    /\ Stats(call).total = 2
    /\ Stats(call).failed = 2
    /\ Len(call.appended) = 2

\* a call is made in this step for a campaign whose template resolves and
\* whose list references lead to no contact
CalledWithoutRecipients ==
    /\ call.pc = "idle" /\ call'.pc # "idle"
    /\ Matching(campaigns, "name", call'.campaign_name) # {}
    /\ campaigns[FindOne(campaigns, "name", call'.campaign_name)].template_id
           \in DOMAIN templates
    /\ ResolvableEmails(call'.campaign_name) = {}

\* C9: a call on a campaign with zero resolvable recipients returns
\* {sent: 0, failed: 0, total: 0}, attempts no delivery, appends no log
\* entry and still sets the status to sent.
C9_EmptyRun ==
    [][ /\ CalledWithoutRecipients =>
            /\ call'.pc = "loop"
            /\ call'.unique_contacts = <<>>
        /\ (call'.pc = "returned" /\ call'.unique_contacts = <<>>) =>
            /\ Stats(call') = [sent |-> 0, failed |-> 0, total |-> 0]
            /\ call'.attempts = <<>>
            /\ call'.appended = <<>>
            /\ email_logs' = email_logs
            /\ campaigns'[FindOne(campaigns', "name", call'.campaign_name)].status
                   = "sent" ]_vars

\* a call returned for a campaign that names lists, none of whose contacts
\* resolve any more
C9_Witness ==
    /\ call.pc = "returned"
    /\ call.unique_contacts = <<>>
    /\ CallCampaign.contact_list_ids # <<>>
    /\ ResolvableEmails(call.campaign_name) = {}

\* C10: after the call returns {sent, failed, total}, the stored campaign's
\* total_recipients, sent_count and failed_count equal total, sent, failed.
C10_StoredCountsEqualSummary ==
    call.pc = "returned" =>
        /\ CallCampaign.total_recipients = Stats(call).total
        /\ CallCampaign.sent_count = Stats(call).sent
        /\ CallCampaign.failed_count = Stats(call).failed

\* some delivery attempt is made in this step
Attempts == Len(call'.attempts) > Len(call.attempts)

\* C11: a campaign is one-shot: once its status is sent, a later
\* send_campaign call neither delivers to its recipients again nor
\* overwrites the recorded counts and sent timestamp.
C11_OneShot ==
    [][ /\ \A id \in DOMAIN campaigns :
              campaigns[id].status = "sent" =>
                  (id \in DOMAIN campaigns' /\ campaigns'[id] = campaigns[id])
        /\ Attempts => CallCampaign.status = "draft" ]_vars

\* a call is made in this step for a campaign that exists and whose
\* template resolves
CalledOnResolvable ==
    /\ call.pc = "idle" /\ call'.pc # "idle"
    /\ Matching(campaigns, "name", call'.campaign_name) # {}
    /\ campaigns[FindOne(campaigns, "name", call'.campaign_name)].template_id
           \in DOMAIN templates

\* C12: when campaign and template resolve, send_campaign returns a
\* summary: the call enters its loop and leaves it only by returning, never
\* by raising.
C12_AlwaysReturnsSummary ==
    [][ /\ CalledOnResolvable => call'.pc = "loop"
        /\ call.pc = "loop" => call'.pc \in {"loop", "returned"} ]_vars

IsPrefix(s, t) == Len(s) <= Len(t) /\ SubSeq(t, 1, Len(s)) = s

\* C15 (as claimed): the email log is append-only: no operation removes or
\* rewrites an existing log entry.
C15_AppendOnly == [][IsPrefix(email_logs, email_logs')]_vars

\* C15 (amended): no operation rewrites a log entry, and entries are removed
\* only by cleanup_old_logs(days_old), which removes exactly the entries
\* older than days_old; every other operation only appends.
C15_AppendOnlyButCleanup ==
    [][ \/ IsPrefix(email_logs, email_logs')
        \/ \E d \in DaysOldInputs :
              email_logs' = SelectSeq(email_logs,
                                      LAMBDA e : e.timestamp >= now - d) ]_vars

\* a campaign recorded a sent email, and the log holds no entry any more
C15_Witness ==
    /\ email_logs = <<>>
    /\ \E id \in DOMAIN campaigns : campaigns[id].sent_count >= 1

\* C19: a campaign is draft from its creation until a send_campaign call on
\* it completes, becomes sent in the step in which that call returns, and
\* once sent never is draft again.
C19_DraftThenSent ==
    [][ /\ \A id \in DOMAIN campaigns' \ DOMAIN campaigns :
              campaigns'[id].status = "draft"
        /\ \A id \in DOMAIN campaigns :
              /\ id \in DOMAIN campaigns'
              /\ campaigns[id].status = "sent" => campaigns'[id].status = "sent"
              /\ campaigns'[id].status \in {"draft", "sent"}
              /\ campaigns'[id].status # campaigns[id].status =>
                    /\ call.pc = "loop" /\ call'.pc = "returned"
                    /\ campaigns[id].name = call.campaign_name
        /\ (call.pc = "loop" /\ call'.pc = "returned") =>
              campaigns'[FindOne(campaigns', "name", call'.campaign_name)].status
                  = "sent" ]_vars

\* a draft campaign became sent by a call in which nothing was sent
C19_Witness ==
    /\ call.pc = "returned"
    /\ CallCampaign.status = "sent"
    /\ CallCampaign.sent_at = 1
    /\ Stats(call).total >= 1
    /\ Stats(call).sent = 0

\* C20: within one call the campaign document is written once, in the step
\* in which the call returns, after the last recipient attempt: no step
\* before or between the attempts changes it.
C20_SingleWriteAtEnd ==
    [][ /\ (call'.pc = "loop") =>
              LET id == FindOne(campaigns, "name", call'.campaign_name)
              IN id \in DOMAIN campaigns' /\ campaigns'[id] = campaigns[id]
        /\ (call.pc = "loop" /\ call'.pc = "returned") =>
              /\ Len(call.attempts) = Len(call.unique_contacts)
              /\ call'.attempts = call.attempts
              /\ campaigns'[FindOne(campaigns', "name", call'.campaign_name)] =
                    MongoSet(CallCampaign, CampaignUpdate(call)) ]_vars

\* the loop is between two attempts and the campaign is still a draft with
\* its counts at zero
C20_Witness ==
    /\ call.pc = "loop"
    /\ Len(call.attempts) = 1
    /\ Len(call.unique_contacts) = 2
    /\ call.sent_count = 1
    /\ CallCampaign.status = "draft"
    /\ CallCampaign.sent_count = 0

\* C16: no operation changes the email of an existing contact: every stored
\* contact keeps the email address it was created with.
C16_EmailImmutable ==
    [][\A id \in DOMAIN contacts \cap DOMAIN contacts' :
          contacts'[id].email = contacts[id].email]_vars

\* C17: every contact in storage has an email validate_email accepts, and
\* so has every address a send_campaign call dispatches to.
C17_StoredEmailsValid ==
    /\ \A id \in DOMAIN contacts : validate_email(contacts[id].email)
    /\ \A k \in 1..Len(call.attempts) :
          validate_email(call.attempts[k].to_email)

\* no two documents of coll have the same value of field
UniqueKey(coll, field) ==
    \A i, j \in DOMAIN coll : coll[i][field] = coll[j][field] => i = j

\* the collection an operation inserts into, and its unique key
CollectionOf(op) ==
    CASE op = "add_contact" -> contacts
      [] op = "create_contact_list" -> contact_lists
      [] op = "save_template" -> templates
      [] op = "create_campaign" -> campaigns

KeyOf(op) == IF op = "add_contact" THEN "email" ELSE "name"

InsertOps ==
    {"add_contact", "create_contact_list", "save_template", "create_campaign"}

\* C18: add_contact with an existing email, create_contact_list,
\* save_template and create_campaign with an existing name fail with an
\* already-exists error that names the duplicate and leave storage
\* unchanged; a step that inserts a document modifies no existing one; and
\* no two documents of a collection share the unique key.
C18_UniquenessSurfaced ==
    [][ /\ (call'.pc = "raised" /\ call'.op \in InsertOps
              /\ call'.error = "already exists") =>
              /\ <<contacts, contact_lists, templates, campaigns>>' =
                     <<contacts, contact_lists, templates, campaigns>>
              /\ Matching(CollectionOf(call'.op), KeyOf(call'.op), call'.key)
                     # {}
        /\ \A op \in InsertOps :
              DOMAIN CollectionOf(op) # DOMAIN CollectionOf(op)' =>
                  \A id \in DOMAIN CollectionOf(op) \cap DOMAIN CollectionOf(op)' :
                      CollectionOf(op)'[id] = CollectionOf(op)[id]
        /\ UniqueKey(contacts', "email")
        /\ UniqueKey(contact_lists', "name")
        /\ UniqueKey(templates', "name")
        /\ UniqueKey(campaigns', "name") ]_vars

\* add_contact was called with the email of a stored contact and raised
C18_Witness ==
    /\ call.pc = "raised"
    /\ call.op = "add_contact"
    /\ call.error = "already exists"
    /\ Matching(contacts, "email", call.key) # {}

\* the recognized placeholders of a contact, with their values
Recognized(contact) ==
    placeholders(contact) \o CustomPlaceholders(contact.custom_fields)

\* the template with every occurrence of a recognized placeholder replaced
\* by its value, all at once: a value put in is not looked at again
RECURSIVE Simultaneous(_, _)
Simultaneous(s, entries) ==
    IF s = <<>> THEN s
    ELSE LET hits == {k \in 1..Len(entries) :
                         /\ Len(entries[k].placeholder) <= Len(s)
                         /\ SubSeq(s, 1, Len(entries[k].placeholder)) =
                                entries[k].placeholder}
         IN IF hits = {}
            THEN <<s[1]>> \o Simultaneous(Tail(s), entries)
            ELSE LET e == entries[CHOOSE k \in hits : TRUE]
                 IN e.value \o
                    Simultaneous(SubSeq(s, Len(e.placeholder) + 1, Len(s)),
                                 entries)

Personalized == call.pc = "returned" /\ call.op = "personalize_email"

\* C13: the output of personalize_email is the template with each
\* occurrence of a recognized placeholder replaced simultaneously by the
\* contact's value, for every template and every contact.
C13_SimultaneousSubstitution ==
    Personalized =>
        call.content = Simultaneous(templates[1].body, Recognized(contacts[1]))

\* {{...}} tokens personalize_email does not recognize for the contact
UnknownTokens(contact) ==
    {Placeholder(<<"p", "h", "o", "n", "e">>)} \cup
    {Placeholder(custom \o k) : k \in
        {<<"k">>, <<"j">>} \ {contact.custom_fields[i].field_name :
                                 i \in 1..Len(contact.custom_fields)}}

\* C14: every occurrence of a token outside the recognized set, and of a
\* {{custom.<k>}} token whose key the contact does not have, is in the
\* output where it was: the output is the personalized text before it, the
\* token itself, and the personalized text after it.
C14_UnknownTokensVerbatim ==
    Personalized =>
        LET t == templates[1].body
            c == contacts[1]
        IN \A u \in UnknownTokens(c) : \A i \in 1..Len(t) :
              (i + Len(u) - 1 <= Len(t) /\ SubSeq(t, i, i + Len(u) - 1) = u) =>
                  call.content =
                      personalize_email(SubSeq(t, 1, i - 1), c) \o u \o
                      personalize_email(SubSeq(t, i + Len(u), Len(t)), c)

\* a template with {{custom.k}} after {{first_name}} was personalized for a
\* contact without custom fields
C14_Witness ==
    /\ Personalized
    /\ contacts[1].custom_fields = <<>>
    /\ contacts[1].first_name = <<"A", "l">>
    /\ templates[1].body =
           Placeholder(first_name) \o Placeholder(custom \o <<"k">>)
    /\ call.content = <<"A", "l">> \o Placeholder(custom \o <<"k">>)

\* the list references of the campaign a call names
RefsOf(campaign_name) ==
    campaigns[FindOne(campaigns, "name", campaign_name)].contact_list_ids

RECURSIVE Flatten(_)
Flatten(ss) == IF ss = <<>> THEN <<>> ELSE Head(ss) \o Flatten(Tail(ss))

\* the list references that resolve, and the contact ids of a list that do
LiveLists(refs) == SelectSeq(refs, LAMBDA l : l \in DOMAIN contact_lists)
LiveIds(contact_ids) == SelectSeq(contact_ids, LAMBDA c : c \in DOMAIN contacts)

\* the contact documents met when walking the references in order and each
\* list's contact ids in order, the references that do not resolve removed
LiveWalk(refs) ==
    LET ids == Flatten([k \in 1..Len(LiveLists(refs)) |->
                   LiveIds(contact_lists[LiveLists(refs)[k]].contact_ids)])
    IN [k \in 1..Len(ids) |-> contacts[ids[k]]]

FirstIndex(e, w) ==
    CHOOSE i \in 1..Len(w) : w[i] = e /\ \A j \in 1..(i - 1) : w[j] # e

\* u holds each element of w once, ordered by first occurrence in w
InFirstSeenOrder(u, w) ==
    /\ SeqToSet(u) = SeqToSet(w)
    /\ \A i, j \in 1..Len(u) :
          i < j => FirstIndex(u[i], w) < FirstIndex(u[j], w)

\* position of address e among the recipients of the call c
RecipientIndex(c, e) ==
    CHOOSE i \in 1..Len(c.unique_contacts) : c.unique_contacts[i].email = e

\* C21: the send sequence is the first-seen order of the walk over the
\* campaign's list references; every iteration attempts exactly the next
\* recipient and appends its log entries before the next one begins, so
\* the log entries of one dispatch are in recipient order.
C21_OneAtATimeInOrder ==
    [][ /\ Resolves =>
              InFirstSeenOrder(EmailsOf(call'.unique_contacts),
                               EmailsOf(LiveWalk(RefsOf(call'.campaign_name))))
        /\ Attempts =>
              LET n == Len(call.attempts)
                  new == SubSeq(call'.appended, Len(call.appended) + 1,
                                Len(call'.appended))
              IN /\ Len(call'.attempts) = n + 1
                 /\ call'.attempts[n + 1].to_email =
                        call.unique_contacts[n + 1].email
                 /\ SubSeq(call'.attempts, 1, n) = call.attempts
                 /\ email_logs' = email_logs \o new
                 /\ Len(new) <= 1
                 /\ \A k \in 1..Len(new) :
                        new[k].to_email = call.unique_contacts[n + 1].email
        /\ call'.pc \in {"loop", "returned"} =>
              \A i, j \in 1..Len(call'.appended) :
                  i < j => RecipientIndex(call', call'.appended[i].to_email) <
                           RecipientIndex(call', call'.appended[j].to_email) ]_vars

\* the walk met a@x.com, b@x.com and a@x.com again; both were attempted
\* and logged, a@x.com first
C21_Witness ==
    /\ call.pc = "returned"
    /\ EmailsOf(LiveWalk(RefsOf(call.campaign_name))) =
           <<"a@x.com", "b@x.com", "a@x.com">>
    /\ Recipients(call.attempts) = <<"a@x.com", "b@x.com">>
    /\ Len(call.appended) = 2
    /\ call.appended[1].to_email = "a@x.com"

\* some list reference, or some contact id of a referenced list, does not
\* resolve
HasDangling(refs) ==
    \/ \E k \in 1..Len(refs) : refs[k] \notin DOMAIN contact_lists
    \/ \E k \in 1..Len(LiveLists(refs)) :
          LET ids == contact_lists[LiveLists(refs)[k]].contact_ids
          IN \E n \in 1..Len(ids) : ids[n] \notin DOMAIN contacts

\* C22: a call on a campaign with dangling references resolves exactly as
\* it would with those references removed: the recipients are the
\* contacts of the remaining references, nothing is counted failed and
\* nothing is logged for a dangling reference, the call raises only if a
\* resolving contact document does, and every remaining recipient is
\* attempted before the call returns.
C22_DanglingSkipped ==
    [][ /\ (CalledOnResolvable /\ HasDangling(RefsOf(call'.campaign_name))) =>
              LET w == LiveWalk(RefsOf(call'.campaign_name))
              IN IF \E k \in 1..Len(w) : ContactRaises(w[k])
                 THEN call'.pc = "raised" /\ call'.error = "TypeError"
                 ELSE /\ call'.pc = "loop"
                      /\ InFirstSeenOrder(EmailsOf(call'.unique_contacts),
                                          EmailsOf(w))
                      /\ call'.total_count = Len(call'.unique_contacts)
                      /\ call'.failed_count = 0
                      /\ call'.appended = <<>>
                      /\ email_logs' = email_logs
        /\ call'.pc \in {"loop", "returned"} =>
              /\ IsPrefix(Recipients(call'.attempts),
                          EmailsOf(call'.unique_contacts))
              /\ call'.failed_count <= Len(call'.attempts)
              /\ \A k \in 1..Len(call'.appended) :
                    \E n \in 1..Len(call'.attempts) :
                        call'.attempts[n].to_email = call'.appended[k].to_email
        /\ call'.pc = "returned" =>
              Len(call'.attempts) = Len(call'.unique_contacts) ]_vars

\* the campaign's list holds the id of a deleted contact before that of
\* b@x.com; the call returned having attempted b@x.com only
C22_Witness ==
    /\ call.pc = "returned"
    /\ \E k \in 1..Len(RefsOf(call.campaign_name)) :
          LET l == RefsOf(call.campaign_name)[k]
          IN /\ l \in DOMAIN contact_lists
             /\ Len(contact_lists[l].contact_ids) = 2
             /\ contact_lists[l].contact_ids[1] \notin DOMAIN contacts
             /\ contact_lists[l].contact_ids[2] \in DOMAIN contacts
    /\ Recipients(call.attempts) = <<"b@x.com">>
    /\ Stats(call).total = 1

\* C26: the recipients of a call are fixed when it enters the send loop:
\* they are the contacts that resolve at that moment, no step of the loop
\* changes them or the total, whatever other clients write meanwhile, and
\* the call returns having attempted exactly them.
C26_SnapshotRecipients ==
    [][ /\ Resolves =>
              SeqToSet(EmailsOf(call'.unique_contacts)) =
                  ResolvableEmails(call'.campaign_name)
        /\ (call.pc = "loop" /\ call'.pc \in {"loop", "returned"}) =>
              /\ call'.unique_contacts = call.unique_contacts
              /\ call'.total_count = call.total_count
        /\ call'.pc = "returned" =>
              /\ Recipients(call'.attempts) = EmailsOf(call'.unique_contacts)
              /\ Stats(call').total = Len(call'.unique_contacts) ]_vars

\* a@x.com and b@x.com were attempted although the contact b@x.com was
\* deleted after the call had resolved its recipients
C26_Witness ==
    /\ call.pc = "returned"
    /\ Recipients(call.attempts) = <<"a@x.com", "b@x.com">>
    /\ Stats(call).total = 2
    /\ Matching(contacts, "email", "b@x.com") = {}
    /\ Matching(contacts, "email", "a@x.com") # {}

\* what send_campaign hands to the transport for a contact: a function of
\* the template and of that contact's fields, and of nothing else
ContentFor(template, contact) ==
    [To |-> contact.email,
     Subject |-> personalize_email(template.subject, contact),
     body |-> personalize_email(template.body, contact),
     html_body |-> personalize_email(template.html_body, contact)]

\* the recipient of the call whose email is e
RecipientOf(c, e) == c.unique_contacts[RecipientIndex(c, e)]

\* C27: the subject, body and HTML body of the message built for address e,
\* and the subject of e's log entry, are those of the template personalized
\* with the fields of the contact whose email is e; no other recipient's
\* fields enter.
C27_NoCrossRecipientLeak ==
    call.pc \in {"loop", "returned"} =>
        /\ \A k \in 1..Len(call.attempts) :
              LET a == call.attempts[k]
              IN a.message # EmptyDoc =>
                    a.message = ContentFor(call.template,
                                           RecipientOf(call, a.to_email))
        /\ \A k \in 1..Len(call.appended) :
              LET e == call.appended[k]
              IN e.subject = ContentFor(call.template,
                                        RecipientOf(call, e.to_email)).Subject

\* messages were built for a@x.com and then b@x.com, each with the first
\* name and company of its own contact
C27_Witness ==
    /\ call.pc = "returned"
    /\ Len(call.attempts) = 2
    /\ call.attempts[1].message # EmptyDoc
    /\ call.attempts[1].message.To = "a@x.com"
    /\ call.attempts[1].message.Subject = <<"A", "l">>
    /\ call.attempts[2].message # EmptyDoc
    /\ call.attempts[2].message.To = "b@x.com"
    /\ call.attempts[2].message.Subject = <<"B", "o">>
    /\ call.attempts[2].message.html_body = <<"Y">>
    /\ Len(call.appended) = 2
    /\ call.appended[2].subject = <<"B", "o">>

\* C23: the output of personalize_email is the same whatever the order in
\* which the placeholders of the contact are replaced.
C23_OrderIrrelevant ==
    Personalized =>
        LET entries == Recognized(contacts[1])
        IN \A perm \in Permutations(1..Len(entries)) :
              ReplaceEach(templates[1].body,
                          [k \in 1..Len(entries) |-> entries[perm[k]]]) =
                  call.content

\* sub occurs in s
Contains(s, sub) ==
    \E i \in 1..(Len(s) - Len(sub) + 1) : SubSeq(s, i, i + Len(sub) - 1) = sub

\* no value of the contact holds one of its recognized placeholders
NoTokenInValues(contact) ==
    \A i, j \in 1..Len(Recognized(contact)) :
        ~Contains(Recognized(contact)[i].value,
                  Recognized(contact)[j].placeholder)

PersonalizedTwice ==
    call.pc = "returned" /\ call.op = "personalize_email_again"

\* C24 (as claimed): when no field value of the contact contains a
\* recognized placeholder, a second pass of personalize_email changes
\* nothing.
C24_IdempotentSecondPass ==
    (PersonalizedTwice /\ NoTokenInValues(contacts[1])) =>
        call.content = personalize_email(templates[1].body, contacts[1])

Braces == {"{", "}"}

\* every brace of t belongs to a token {{name}} whose name has no brace
RECURSIVE WellFormed(_)
WellFormed(t) ==
    IF t = <<>> THEN TRUE
    ELSE IF t[1] \notin Braces THEN WellFormed(Tail(t))
    ELSE \E k \in 3..(Len(t) - 1) :
            /\ t[1] = "{" /\ t[2] = "{"
            /\ t[k] = "}" /\ t[k + 1] = "}"
            /\ \A i \in 3..(k - 1) : t[i] \notin Braces
            /\ WellFormed(SubSeq(t, k + 2, Len(t)))

\* no value of the contact holds a brace
BraceFreeValues(contact) ==
    \A i \in 1..Len(Recognized(contact)) :
        \A n \in 1..Len(Recognized(contact)[i].value) :
            Recognized(contact)[i].value[n] \notin Braces

\* C24 (amended): when no field value of the contact holds a brace and
\* every brace of the template belongs to a {{name}} token, a second pass
\* of personalize_email changes nothing.
C24_IdempotentWellFormed ==
    (PersonalizedTwice /\ BraceFreeValues(contacts[1])
        /\ WellFormed(templates[1].body)) =>
        call.content = personalize_email(templates[1].body, contacts[1])

\* {{company}}{{full_name}} was personalized twice for a contact with an
\* empty company and brace-free names
C24_Witness ==
    /\ PersonalizedTwice
    /\ templates[1].body = Placeholder(company) \o Placeholder(full_name)
    /\ contacts[1].company = <<>>
    /\ contacts[1].first_name = <<"A", "l">>
    /\ contacts[1].last_name = <<"B", "o">>
    /\ call.content = <<"A", "l", " ", "B", "o">>

\* a send_single_email call has returned or raised
SentSingle == call.pc \in {"returned", "raised"} /\ call.op = "send_single_email"

\* the statement cmd was executed in the call's session / and succeeded
Issued(cmd) == \E k \in 1..Len(call.session) : call.session[k].cmd = cmd
Succeeded(cmd) ==
    \E k \in 1..Len(call.session) :
        call.session[k].cmd = cmd /\ call.session[k].ok

\* cmd1 succeeded before cmd2 was executed
SucceededBefore(cmd1, cmd2) ==
    \E i, j \in 1..Len(call.session) :
        /\ i < j
        /\ call.session[i].cmd = cmd1 /\ call.session[i].ok
        /\ call.session[j].cmd = cmd2

\* C25: with use_tls set, login is sent only after STARTTLS succeeded, the
\* message is submitted only after login succeeded, and after a failed
\* STARTTLS or login neither the login nor the message is sent.
C25_TlsBeforeLogin ==
    SentSingle =>
        /\ (smtp_config.use_tls /\ Issued("login")) =>
               SucceededBefore("starttls", "login")
        /\ Issued("send_message") => SucceededBefore("login", "send_message")
        /\ (Issued("starttls") /\ ~Succeeded("starttls")) =>
               ~Issued("login") /\ ~Issued("send_message")
        /\ (Issued("login") /\ ~Succeeded("login")) => ~Issued("send_message")

\* with use_tls set, STARTTLS failed: the session ended there and the call
\* returned False
C25_Witness ==
    /\ SentSingle
    /\ smtp_config.use_tls
    /\ call.session = <<[cmd |-> "connect", ok |-> TRUE],
                        [cmd |-> "starttls", ok |-> FALSE]>>
    /\ call.ret = FALSE

\* C28: whenever send_message succeeded for a recipient, send_single_email
\* returns True and logs the recipient with status sent, whichever later
\* statement fails.
C28_DeliveredMeansSent ==
    (SentSingle /\ Succeeded("send_message")) =>
        /\ call.pc = "returned"
        /\ call.ret = TRUE
        /\ Len(call.appended) = 1
        /\ call.appended[1].status = "sent"

\* C29: every SMTP session send_single_email opened is closed by quit
\* before the call returns, on the success path and on every failure path.
C29_SessionClosed ==
    (SentSingle /\ Succeeded("connect")) => Issued("quit")

====
